---- MODULE Spec2Model ----
(***************************************************************************)
(* Model of the mars_time package (src/mars_time/retimers.py and           *)
(* src/mars_time/constants.py): the MarsTime / MarsTimeDelta value types,  *)
(* their arithmetic, and the conversions between datetimes and MarsTimes.  *)
(*                                                                         *)
(* Number representation.  The code works on floats and on datetimes with  *)
(* microsecond resolution; the model works on exact fixed-point integers.  *)
(*   - a duration is counted in ticks of 3/25 s (0.12 s), so that one      *)
(*     thousandth of a day (the resolution of the epoch table) is 720      *)
(*     ticks and one sol (88774.92 s) is 739791 ticks;                     *)
(*   - a datetime is a record [md, tick, tzinfo]: its wall clock reads md  *)
(*     thousandths of a day since the noon of 2000-01-01 plus tick ticks,  *)
(*     0 <= tick < TicksPerMilliDay (absolute tick counts do not fit the   *)
(*     integers of the model checker); tzinfo is "utc" for an aware        *)
(*     datetime (UTC is the only timezone here) and "None" for a naive one;*)
(*   - a sol value is a fixed-point number with SolScale units per sol;    *)
(*   - a fractional Mars year is a record [whole, num] standing for        *)
(*     whole + num / sols_per_martian_year.                                *)
(* Float rounding (about 1e-13 relative) is not modelled: every operator   *)
(* computes the exact value of the expression the code evaluates.  The one *)
(* exception is solar_longitude_to_sol_double, which tabulates the doubles *)
(* the trigonometric expressions of solar_longitude_to_sol return.         *)
(***************************************************************************)
EXTENDS Integers, Sequences, FiniteSets, TLC

VARIABLES mt, mtd, dt, src, call, ncalls

vars == <<mt, mtd, dt, src, call, ncalls>>

----------------------------------------------------------------------------
(* constants.py *)

\* seconds_per_day: int = 86400
seconds_per_day == 86400

\* hours_per_sol: float = 24.6597, held in units of 1e-4 hour
hours_per_sol == 246597

\* ticks (3/25 s) per day and per thousandth of a day
TicksPerDay == (seconds_per_day * 25) \div 3

TicksPerMilliDay == TicksPerDay \div 1000

\* seconds_per_sol = hours_per_sol / 24 * seconds_per_day, in ticks
seconds_per_sol == hours_per_sol * (TicksPerDay \div (24 * 10000))

\* fixed-point scale of sol values: units per sol
SolScale == 3 * hours_per_sol

\* sols_per_year: float = 668.5930632493113 (imported by retimers.py as
\* sols_per_martian_year), in SolScale units, rounded to the nearest unit
sols_per_martian_year == 494619131

\* mars_year_start_days_since_j2000, in thousandths of a day, years -99..100
YearStartMilliDays ==
    <<
       -85033149, -84346147, -83659157, -82972202, -82285232,
       -81598256, -80911313, -80224337, -79537345, -78850365,
       -78163396, -77476419, -76789479, -76102520, -75415524,
       -74728550, -74041600, -73354610, -72667640, -71980690,
       -71293710, -70606720, -69919760, -69232790, -68545820,
       -67858880, -67171880, -66484880, -65797930, -65110960,
       -64423980, -63737040, -63050080, -62363090, -61676100,
       -60989140, -60302160, -59615210, -58928250, -58241260,
       -57554280, -56867320, -56180340, -55493360, -54806420,
       -54119440, -53432450, -52745490, -52058520, -51371550,
       -50684610, -49997630, -49310620, -48623660, -47936700,
       -47249720, -46562760, -45875810, -45188820, -44501830,
       -43814860, -43127880, -42440920, -41753980, -41066997,
       -40380010, -39693050, -39006090, -38319090, -37632150,
       -36945180, -36258190, -35571220, -34884260, -34197270,
       -33510330, -32823360, -32136350, -31449370, -30762420,
       -30075450, -29388490, -28701540, -28014560, -27327570,
       -26640590, -25953620, -25266650, -24579710, -23892740,
       -23205740, -22518780, -21831820, -21144820, -20457870,
       -19770910, -19083920, -18396940, -17709980, -17023002,
       -16336050, -15649090, -14962090, -14275110, -13588160,
       -12901180, -12214210, -11527270, -10840290, -10153300,
       -9466317, -8779349, -8092373, -7405432, -6718466,
       -6031469, -5344497, -4657544, -3970550, -3283590,
       -2596642, -1909654, -1222672, -535714, 151264,
       838229, 1525176, 2212173, 2899166, 3586124,
       4273090, 4960070, 5647012, 6333979, 7020971,
       7707956, 8394918, 9081896, 9768843, 10455797,
       11142793, 11829774, 12516727, 13203716, 13890691,
       14577634, 15264618, 15951609, 16638569, 17325539,
       18012511, 18699451, 19386438, 20073435, 20760397,
       21447355, 22134338, 22821286, 23508242, 24195234,
       24882228, 25569193, 26256173, 26943131, 27630078,
       28317068, 29004055, 29691009, 30377985, 31064971,
       31751911, 32438882, 33125875, 33812839, 34499801,
       35186780, 35873724, 36560703, 37247706, 37934680,
       38621635, 39308617, 39995576, 40682523, 41369510,
       42056507, 42743474, 43430445, 44117411, 44804349,
       45491328, 46178320, 46865281, 47552248, 48239246,
       48926192, 49613155, 50300150, 50987124, 51674083
    >>

FirstTabulatedYear == 0 - 99

LastTabulatedYear == FirstTabulatedYear + Len(YearStartMilliDays) - 1

mars_year_start_days_since_j2000 ==
    [y \in FirstTabulatedYear..LastTabulatedYear |->
        YearStartMilliDays[y - FirstTabulatedYear + 1]]

\* j2000 = datetime(2000, 1, 1, 12, 0, 0, tzinfo=utc)
j2000 == [kind |-> "datetime", md |-> 0, tick |-> 0, tzinfo |-> "utc"]

----------------------------------------------------------------------------
(* datetime / timedelta arithmetic of the host library *)

\* datetime + timedelta, the timedelta given in ticks (any sign)
datetime_add(d, ticks) ==
    LET t == d.tick + ticks
    IN  [kind |-> "datetime",
         md   |-> d.md + (t \div TicksPerMilliDay),
         tick |-> t % TicksPerMilliDay,
         tzinfo |-> d.tzinfo]

\* (a - b).total_seconds() >= 0
datetime_ge(a, b) == a.md > b.md \/ (a.md = b.md /\ a.tick >= b.tick)

\* (a - b).total_seconds(), in ticks
total_seconds(a, b) == (a.md - b.md) * TicksPerMilliDay + (a.tick - b.tick)

\* floor(a * b / c) for a >= 0, 0 < b, c < 2^20, without leaving 32 bits
MulDiv(a, b, c) ==
    LET r  == a % c
        b1 == b \div 1024
        b0 == b % 1024
        q1 == (r * b1) \div c
        r1 == (r * b1) % c
    IN  (a \div c) * b + q1 * 1024 + ((r1 * 1024 + r * b0) \div c)

\* datetime.year: the year of the proleptic Gregorian calendar that holds
\* the instant d (J2000 is the noon of 2000-01-01, day 730425 after
\* 0000-03-01; a 400-year era has 146097 days)
datetime_year(d) ==
    LET days == ((d.md + 500) \div 1000) + 730425
        era  == days \div 146097
        doe  == days % 146097
        yoe  == (doe - (doe \div 1460) + (doe \div 36524) - (doe \div 146096)) \div 365
        doy  == doe - (365 * yoe + (yoe \div 4) - (yoe \div 100))
        mp   == (5 * doy + 2) \div 153
    IN  yoe + era * 400 + (IF mp < 10 THEN 0 ELSE 1)

\* a - b is defined for two aware or two naive datetimes; for a naive and an
\* aware one it raises TypeError
can_subtract(a, b) == (a.tzinfo = "None") <=> (b.tzinfo = "None")

\* d.replace(tzinfo=tzinfo): the same wall clock with another tzinfo
datetime_replace_tzinfo(d, tzinfo) == [d EXCEPT !.tzinfo = tzinfo]

\* datetime + timedelta(days=...), the days given in thousandths of a day
datetime_add_days(d, millidays) ==
    [kind |-> "datetime", md |-> d.md + millidays, tick |-> d.tick,
     tzinfo |-> d.tzinfo]

\* def mars_year_starting_datetimes(): j2000 + timedelta(days=table[year])
mars_year_starting_datetimes ==
    [y \in DOMAIN mars_year_start_days_since_j2000 |->
        datetime_add_days(j2000, mars_year_start_days_since_j2000[y])]

\* sols_per_mars_year dividing the length of a year by the length of a day
sols_per_mars_year_in_days ==
    [year \in DOMAIN mars_year_starting_datetimes \ {LastTabulatedYear} |->
        MulDiv(total_seconds(mars_year_starting_datetimes[year + 1],
                             mars_year_starting_datetimes[year]),
               SolScale, TicksPerDay)]

\* def sols_per_mars_year(): for every key of the table but the last,
\* (dt[year + 1] - dt[year]).total_seconds() / seconds_per_sol
sols_per_mars_year ==
    [year \in DOMAIN mars_year_starting_datetimes \ {LastTabulatedYear} |->
        MulDiv(total_seconds(mars_year_starting_datetimes[year + 1],
                             mars_year_starting_datetimes[year]),
               SolScale, seconds_per_sol)]

----------------------------------------------------------------------------
(* values *)

None == [kind |-> "None"]

\* the outcome of a call that raises the exception exc
Raise(exc) == [kind |-> "raise", exc |-> exc]

Raised(v) == v.kind = "raise"

\* Python values a caller passes: an int, a float (a number of SolScale
\* units), a str (the sequence of its characters), a list
PyInt(v) == [kind |-> "int", v |-> v]

PyFloat(v) == [kind |-> "float", v |-> v]

PyStr(chars) == [kind |-> "str", chars |-> chars]

PyList == [kind |-> "list"]

DigitValue ==
    "0" :> 0 @@ "1" :> 1 @@ "2" :> 2 @@ "3" :> 3 @@ "4" :> 4 @@
    "5" :> 5 @@ "6" :> 6 @@ "7" :> 7 @@ "8" :> 8 @@ "9" :> 9

\* the number a non-empty sequence of decimal digits denotes
RECURSIVE DecimalValue(_)
DecimalValue(digits) ==
    IF Len(digits) = 1 THEN DigitValue[digits[1]]
    ELSE 10 * DecimalValue(SubSeq(digits, 1, Len(digits) - 1))
         + DigitValue[digits[Len(digits)]]

\* the integer a str denotes: an optional sign, then decimal digits; a
\* ValueError for any other str
ParseInteger(chars) ==
    LET signed == Len(chars) > 0 /\ chars[1] \in {"+", "-"}
        digits == IF signed THEN Tail(chars) ELSE chars
    IN  IF Len(digits) = 0 \/ \E i \in 1..Len(digits) : digits[i] \notin DOMAIN DigitValue
        THEN Raise("ValueError")
        ELSE PyInt(IF signed /\ chars[1] = "-"
                 THEN 0 - DecimalValue(digits) ELSE DecimalValue(digits))

\* int(x) of the host language: a float is truncated towards zero, a str is
\* parsed, any other kind of value is a TypeError
int(x) ==
    IF x.kind = "int" THEN x
    ELSE IF x.kind = "float"
         THEN PyInt(IF x.v >= 0 THEN x.v \div SolScale ELSE 0 - ((0 - x.v) \div SolScale))
    ELSE IF x.kind = "str" THEN ParseInteger(x.chars)
    ELSE Raise("TypeError")

\* float(x) of the host language, for a str that is an integer literal or
\* that is no number at all
float(x) ==
    IF x.kind = "float" THEN x
    ELSE IF x.kind = "int" THEN PyFloat(x.v * SolScale)
    ELSE IF x.kind = "str"
         THEN LET parsed == ParseInteger(x.chars)
              IN  IF Raised(parsed) THEN parsed ELSE PyFloat(parsed.v * SolScale)
    ELSE Raise("TypeError")

\* the attributes of a value that the package reads
Attributes(v) ==
    IF v.kind = "MarsTime" THEN {"year", "sol"}
    ELSE IF v.kind = "MarsTimeDelta" THEN {"year", "sol", "years", "sols"}
    ELSE IF v.kind = "datetime" THEN {"year", "tzinfo"}
    ELSE {}

\* v.year
year_of(v) == IF v.kind = "datetime" THEN datetime_year(v) ELSE v.year

\* MarsTimeDelta.__init__ (float(year), float(sol) of numeric arguments)
MarsTimeDelta(year, sol) == [kind |-> "MarsTimeDelta", year |-> year, sol |-> sol]

\* MarsTimeDelta.years: year + sol / sols_per_martian_year
MarsTimeDelta_years(d) == [whole |-> d.year, num |-> d.sol]

\* MarsTimeDelta.sols with a year of 669 whole sols
MarsTimeDelta_sols_whole_sols(d) == d.sol + d.year * (669 * SolScale)

\* MarsTimeDelta.sols: sol + year * sols_per_martian_year
MarsTimeDelta_sols(d) == d.sol + d.year * sols_per_martian_year

\* MarsTime._validate_year
MarsTime_validate_year(year) ==
    IF (0 - 99) <= year /\ year <= 99
    THEN [kind |-> "int", v |-> year]
    ELSE Raise("ValueError")

\* the sols_per_year local of MarsTime._validate_sol:
\* (starting_datetimes[year+1] - starting_datetimes[year]).total_seconds() / seconds_per_sol
sols_per_year(year) ==
    MulDiv(total_seconds(mars_year_starting_datetimes[year + 1],
                         mars_year_starting_datetimes[year]),
           SolScale, seconds_per_sol)

\* MarsTime._validate_sol with the comparison 0 <= sol only
MarsTime_validate_sol_unbounded(year, sol) ==
    IF (year \notin DOMAIN mars_year_starting_datetimes)
       \/ (year + 1 \notin DOMAIN mars_year_starting_datetimes)
    THEN Raise("KeyError")
    ELSE IF 0 <= sol
         THEN [kind |-> "float", v |-> sol]
         ELSE Raise("ValueError")

\* MarsTime._validate_sol with the comparison sol < sols_per_year
MarsTime_validate_sol_exclusive(year, sol) ==
    IF (year \notin DOMAIN mars_year_starting_datetimes)
       \/ (year + 1 \notin DOMAIN mars_year_starting_datetimes)
    THEN Raise("KeyError")
    ELSE IF 0 <= sol /\ sol < sols_per_year(year)
         THEN [kind |-> "float", v |-> sol]
         ELSE Raise("ValueError")

\* MarsTime._validate_sol, for self.year = year
MarsTime_validate_sol(year, sol) ==
    IF (year \notin DOMAIN mars_year_starting_datetimes)
       \/ (year + 1 \notin DOMAIN mars_year_starting_datetimes)
    THEN Raise("KeyError")
    ELSE IF 0 <= sol /\ sol <= sols_per_year(year)
         THEN [kind |-> "float", v |-> sol]
         ELSE Raise("ValueError")

\* MarsTime.__init__ for an int year and a float sol (in SolScale units)
MarsTime(year, sol) ==
    LET y == MarsTime_validate_year(year)
    IN  IF Raised(y) THEN y
        ELSE LET s == MarsTime_validate_sol(y.v, sol)
             IN  IF Raised(s) THEN s
                 ELSE [kind |-> "MarsTime", year |-> y.v, sol |-> s.v]

\* MarsTime.__init__ re-raising every failed conversion as a ValueError
MarsTime__init___conversion_as_value_error(year, sol) ==
    LET converted_year == int(year)
    IN  IF Raised(converted_year) THEN Raise("ValueError")
        ELSE LET y == MarsTime_validate_year(converted_year.v)
             IN  IF Raised(y) THEN y
                 ELSE LET converted_sol == float(sol)
                      IN  IF Raised(converted_sol) THEN Raise("ValueError")
                          ELSE MarsTime(y.v, converted_sol.v)

\* MarsTime.__init__ for arguments of any kind: _validate_year converts with
\* int(year) and _validate_sol with float(sol), each re-raising the
\* TypeError or the ValueError of the conversion, before the range checks
MarsTime__init__(year, sol) ==
    LET converted_year == int(year)
    IN  IF Raised(converted_year) THEN converted_year
        ELSE LET y == MarsTime_validate_year(converted_year.v)
             IN  IF Raised(y) THEN y
                 ELSE LET converted_sol == float(sol)
                      IN  IF Raised(converted_sol) THEN converted_sol
                          ELSE MarsTime(y.v, converted_sol.v)

\* MarsTime.__add__ adding other.sol / sols_per_martian_year in place of other.years
MarsTime__add___sol_only(self, other) ==
    IF other.kind # "MarsTimeDelta" THEN Raise("TypeError")
    ELSE LET new_fractional_year ==
                 [whole |-> self.year, num |-> self.sol + other.sol]
             year == new_fractional_year.whole
                     + (new_fractional_year.num \div sols_per_martian_year)
             sol  == new_fractional_year.num % sols_per_martian_year
         IN  MarsTime(year, sol)

\* MarsTime.__add__ for a MarsTimeDelta operand:
\*   new_fractional_year = self.year + self.sol / sols_per_martian_year + other.years
\*   year = int(new_fractional_year // 1)
\*   sol = (new_fractional_year % 1) * sols_per_martian_year
MarsTime__add__(self, other) ==
    IF other.kind # "MarsTimeDelta" THEN Raise("TypeError")
    ELSE LET years == MarsTimeDelta_years(other)
             new_fractional_year ==
                 [whole |-> self.year + years.whole, num |-> self.sol + years.num]
             year == new_fractional_year.whole
                     + (new_fractional_year.num \div sols_per_martian_year)
             sol  == new_fractional_year.num % sols_per_martian_year
         IN  MarsTime(year, sol)

\* MarsTime.__sub__ carrying the sol difference of two MarsTimes into the year
MarsTime__sub___renormalized(self, other) ==
    IF other.kind = "MarsTimeDelta"
    THEN LET years == MarsTimeDelta_years(other)
             new_fractional_year ==
                 [whole |-> self.year - years.whole, num |-> self.sol - years.num]
             year == new_fractional_year.whole
                     + (new_fractional_year.num \div sols_per_martian_year)
             sol  == new_fractional_year.num % sols_per_martian_year
         IN  MarsTime(year, sol)
    ELSE IF other.kind = "MarsTime"
    THEN MarsTimeDelta(self.year - other.year
                           + ((self.sol - other.sol) \div sols_per_martian_year),
                       (self.sol - other.sol) % sols_per_martian_year)
    ELSE Raise("TypeError")

\* MarsTime.__sub__
MarsTime__sub__(self, other) ==
    IF other.kind = "MarsTimeDelta"
    THEN LET years == MarsTimeDelta_years(other)
             new_fractional_year ==
                 [whole |-> self.year - years.whole, num |-> self.sol - years.num]
             year == new_fractional_year.whole
                     + (new_fractional_year.num \div sols_per_martian_year)
             sol  == new_fractional_year.num % sols_per_martian_year
         IN  MarsTime(year, sol)
    ELSE IF other.kind = "MarsTime"
    THEN MarsTimeDelta(self.year - other.year, self.sol - other.sol)
    ELSE Raise("TypeError")

\* a bool of the host language
PyBool(v) == [kind |-> "bool", v |-> v]

\* MarsTime.__eq__
MarsTime__eq__(self, other) ==
    IF other.kind # "MarsTime" THEN PyBool(FALSE)
    ELSE PyBool(self.year = other.year /\ self.sol = other.sol)

\* MarsTimeDelta.__eq__ comparing the totals of the two deltas
MarsTimeDelta__eq___by_total(self, other) ==
    IF other.kind # "MarsTimeDelta" THEN PyBool(FALSE)
    ELSE PyBool(MarsTimeDelta_sols(self) = MarsTimeDelta_sols(other))

\* MarsTimeDelta.__eq__
MarsTimeDelta__eq__(self, other) ==
    IF other.kind # "MarsTimeDelta" THEN PyBool(FALSE)
    ELSE PyBool(self.year = other.year /\ self.sol = other.sol)

\* a == b: the __eq__ of the class of a
eq(a, b) ==
    IF a.kind = "MarsTime" THEN MarsTime__eq__(a, b) ELSE MarsTimeDelta__eq__(a, b)

\* a < b for two MarsTimes: class MarsTime defines __eq__ and no __lt__ or
\* __gt__, so the host language raises TypeError ('<' not supported between
\* instances of 'MarsTime' and 'MarsTime')
MarsTime__lt__(self, other) == Raise("TypeError")

\* the names a class defines with @property; no property has a setter
Properties(obj) ==
    IF obj.kind = "MarsTime" THEN {"year", "sol", "solar_longitude"}
    ELSE IF obj.kind = "MarsTimeDelta" THEN {"year", "years", "sol", "sols"}
    ELSE {}

\* obj.name = value where the instance attribute is stored: _year and _sol are
\* the fields the properties read, any other name is an attribute nothing reads
assigned(obj, name, value) ==
    IF name = "_year" THEN [obj EXCEPT !.year = value]
    ELSE IF name = "_sol" THEN [obj EXCEPT !.sol = value]
    ELSE obj

\* obj.name = value if the properties had setters that store the value
setattr_with_setters(obj, name, value) ==
    [ret |-> None,
     obj |-> IF name \in {"year", "years"} THEN assigned(obj, "_year", value)
             ELSE IF name \in {"sol", "sols"} THEN assigned(obj, "_sol", value)
             ELSE assigned(obj, name, value)]

\* obj.name = value: what the statement raises (None if nothing) and the
\* object after it; a property without a setter raises AttributeError
setattr(obj, name, value) ==
    IF name \in Properties(obj)
    THEN [ret |-> Raise("AttributeError"), obj |-> obj]
    ELSE [ret |-> None, obj |-> assigned(obj, name, value)]

\* tabulated_mars_years = [f for f in mars_year_starting_datetimes().keys()]
tabulated_mars_years ==
    [i \in 1..Len(YearStartMilliDays) |-> FirstTabulatedYear + i - 1]

\* [year for year in tabulated_mars_years if elapsed_seconds >= 0]
years_not_after(d) ==
    LET elapsed_seconds_ge_0(y) == datetime_ge(d, mars_year_starting_datetimes[y])
    IN  SelectSeq(tabulated_mars_years, elapsed_seconds_ge_0)

\* datetime_to_mars_time counting the elapsed time in days, not in sols
datetime_to_mars_time_in_days(d) ==
    IF "tzinfo" \notin Attributes(d) THEN Raise("TypeError")
    ELSE LET dt_utc == IF d.tzinfo = "None"
                       THEN datetime_replace_tzinfo(d, "utc") ELSE d
             selected  == years_not_after(dt_utc)
             mars_year == selected[Len(selected)]
             start     == MarsTime(mars_year, 0)
         IN  IF ~can_subtract(dt_utc, j2000) THEN Raise("TypeError")
             ELSE IF Len(selected) = 0 THEN Raise("IndexError")
             ELSE IF Raised(start) THEN start
             ELSE LET elapsed_seconds ==
                          total_seconds(dt_utc, mars_year_starting_datetimes[mars_year])
                      sol == MulDiv(elapsed_seconds, SolScale, TicksPerDay)
                  IN  MarsTime__add__(start, MarsTimeDelta(0, sol))

\* datetime_to_mars_time clamping the selected year into -99..99
datetime_to_mars_time_clamped(d) ==
    IF "tzinfo" \notin Attributes(d) THEN Raise("TypeError")
    ELSE LET dt_utc == IF d.tzinfo = "None"
                       THEN datetime_replace_tzinfo(d, "utc") ELSE d
             selected  == years_not_after(dt_utc)
             last      == selected[Len(selected)]
             mars_year == IF last > 99 THEN 99 ELSE last
             start     == MarsTime(mars_year, 0)
         IN  IF ~can_subtract(dt_utc, j2000) THEN Raise("TypeError")
             ELSE IF Len(selected) = 0 THEN Raise("IndexError")
             ELSE IF Raised(start) THEN start
             ELSE LET elapsed_seconds ==
                          total_seconds(dt_utc, mars_year_starting_datetimes[mars_year])
                      sol == MulDiv(elapsed_seconds, SolScale, seconds_per_sol)
                  IN  MarsTime__add__(start, MarsTimeDelta(0, sol))

\* datetime_to_mars_time without dt.replace(tzinfo=utc) for a naive datetime
datetime_to_mars_time_tzinfo_kept(d) ==
    IF "tzinfo" \notin Attributes(d) THEN Raise("TypeError")
    ELSE LET dt_utc == d
             selected  == years_not_after(dt_utc)
             mars_year == selected[Len(selected)]
             start     == MarsTime(mars_year, 0)
         IN  IF ~can_subtract(dt_utc, j2000) THEN Raise("TypeError")
             ELSE IF Len(selected) = 0 THEN Raise("IndexError")
             ELSE IF Raised(start) THEN start
             ELSE LET elapsed_seconds ==
                          total_seconds(dt_utc, mars_year_starting_datetimes[mars_year])
                      sol == MulDiv(elapsed_seconds, SolScale, seconds_per_sol)
                  IN  MarsTime__add__(start, MarsTimeDelta(0, sol))

\* datetime_to_mars_time: a TypeError for the AttributeError of dt.tzinfo,
\* which every value here that is no datetime raises
datetime_to_mars_time(d) ==
    IF "tzinfo" \notin Attributes(d) THEN Raise("TypeError")
    ELSE LET dt_utc == IF d.tzinfo = "None"
                       THEN datetime_replace_tzinfo(d, "utc") ELSE d
             selected  == years_not_after(dt_utc)
             mars_year == selected[Len(selected)]
             start     == MarsTime(mars_year, 0)
         IN  IF ~can_subtract(dt_utc, j2000) THEN Raise("TypeError")
             ELSE IF Len(selected) = 0 THEN Raise("IndexError")
             ELSE IF Raised(start) THEN start
             ELSE LET elapsed_seconds ==
                          total_seconds(dt_utc, mars_year_starting_datetimes[mars_year])
                      sol == MulDiv(elapsed_seconds, SolScale, seconds_per_sol)
                  IN  MarsTime__add__(start, MarsTimeDelta(0, sol))

\* mars_time_to_datetime adding the sol as a number of days
mars_time_to_datetime_sol_as_days(m) ==
    IF m.kind = "MarsTimeDelta" THEN Raise("TypeError")
    ELSE IF "year" \notin Attributes(m) THEN Raise("TypeError")
    ELSE IF year_of(m) \notin DOMAIN mars_year_starting_datetimes THEN Raise("KeyError")
    ELSE IF "sol" \notin Attributes(m) THEN Raise("TypeError")
    ELSE LET starting_datetime == mars_year_starting_datetimes[m.year]
             elapsed_seconds   == MulDiv(m.sol, TicksPerDay, SolScale)
         IN  datetime_add(starting_datetime, elapsed_seconds)

\* mars_time_to_datetime: a TypeError for a MarsTimeDelta and for the
\* AttributeError of mt.year or mt.sol; the KeyError of the table lookup is
\* not caught
mars_time_to_datetime(m) ==
    IF m.kind = "MarsTimeDelta" THEN Raise("TypeError")
    ELSE IF "year" \notin Attributes(m) THEN Raise("TypeError")
    ELSE IF year_of(m) \notin DOMAIN mars_year_starting_datetimes THEN Raise("KeyError")
    ELSE IF "sol" \notin Attributes(m) THEN Raise("TypeError")
    ELSE LET starting_datetime == mars_year_starting_datetimes[m.year]
             elapsed_seconds   == MulDiv(m.sol, seconds_per_sol, SolScale)
         IN  datetime_add(starting_datetime, elapsed_seconds)

\* solar_longitude_to_sol evaluated at the solar longitudes of its domain
\* here (the key is the longitude in tenths of a degree), in SolScale units:
\*   true_anomaly = ls * pi / 180 + 1.90258341759902
\*   eccentric_anomaly = 2 * atan(tan(0.5 * true_anomaly) / sqrt((1 + e) / (1 - e)))
\*   mean_anomaly = eccentric_anomaly - e * sin(eccentric_anomaly)
\*   (mean_anomaly / (2 * pi) * sols_per_martian_year + perihelion_sol) % sols_per_martian_year
solar_longitude_to_sol_values ==
    0 :> 494183145 @@ 1 :> 494327417 @@ 2 :> 494471735 @@
    3 :> 494616099 @@ 4 :> 141378 @@ 10 :> 1008800 @@
    450 :> 68735053 @@ 900 :> 142575002 @@ 1350 :> 212903848 @@
    1800 :> 274686136 @@ 2250 :> 328988544 @@ 2700 :> 380258241 @@
    3150 :> 433758176 @@ 3590 :> 492742950 @@ 3599 :> 494038919

solar_longitude_to_sol(solar_longitude) ==
    solar_longitude_to_sol_values[solar_longitude]

\* the doubles solar_longitude_to_sol returns for the solar longitudes above
\* and for the same longitudes plus 360 degrees (the key is the longitude in
\* tenths of a degree), each as <<millionths of a sol, the next nine
\* decimals>>, i.e. to 1e-15 sol
solar_longitude_to_sol_doubles ==
    0 :> <<668003726, 728834863>> @@ 1 :> <<668198744, 129061083>> @@
    2 :> <<668393823, 579741593>> @@ 3 :> <<668588965, 72851693>> @@
    4 :> <<191105, 350830867>> @@ 10 :> <<1363628, 742106698>> @@
    450 :> <<92911448, 223972570>> @@ 900 :> <<192723352, 370772091>> @@
    1350 :> <<287789184, 242552324>> @@ 1800 :> <<371302348, 811227660>> @@
    2250 :> <<444704711, 982605943>> @@ 2700 :> <<514007660, 659724252>> @@
    3150 :> <<586325294, 988238511>> @@ 3590 :> <<666056967, 107293076>> @@
    3599 :> <<667808771, 386864009>> @@ 3600 :> <<668003726, 728834863>> @@
    3601 :> <<668198744, 129061083>> @@ 3602 :> <<668393823, 579741593>> @@
    3603 :> <<668588965, 72851579>> @@ 3604 :> <<191105, 350830753>> @@
    3610 :> <<1363628, 742106584>> @@ 4050 :> <<92911448, 223972570>> @@
    4500 :> <<192723352, 370772034>> @@ 4950 :> <<287789184, 242552437>> @@
    5400 :> <<371302348, 811227603>> @@ 5850 :> <<444704711, 982606000>> @@
    6300 :> <<514007660, 659724252>> @@ 6750 :> <<586325294, 988238511>> @@
    7190 :> <<666056967, 107293190>> @@ 7199 :> <<667808771, 386863782>>

\* solar_longitude_to_sol as the double it returns
solar_longitude_to_sol_double(solar_longitude) ==
    [kind  |-> "double",
     micro |-> solar_longitude_to_sol_doubles[solar_longitude][1],
     femto |-> solar_longitude_to_sol_doubles[solar_longitude][2]]

\* MarsTime.from_solar_longitude: cls(year, solar_longitude_to_sol(solar_longitude))
MarsTime_from_solar_longitude(year, solar_longitude) ==
    MarsTime(year, solar_longitude_to_sol(solar_longitude))

----------------------------------------------------------------------------
(* the legacy mer package: src/mer/constants.py and src/mer/retimers.py *)

\* the names that mer/constants.py defines
mer_constants ==
    {"mars_year_0_start", "martian_sol_length", "seconds_per_sol",
     "sols_per_martian_year"}

\* from mer.constants import ..., at the top of mer/retimers.py
mer_retimers_imports ==
    {"mars_year_0_start", "sols_per_martian_year", "seconds_per_sol",
     "orbital_eccentricity", "perihelion_sol"}

\* importing mer.retimers, which every use of the module starts with: the
\* import statement raises ImportError for a name that mer.constants lacks
mer_retimers_import ==
    IF mer_retimers_imports \subseteq mer_constants
    THEN None ELSE Raise("ImportError")

\* mars_year_0_start = datetime(1953, 5, 24, 11, 57, 7, 200011, pytz.UTC):
\* 17023.002 days before J2000 (the 11 microseconds are below one tick)
mer_mars_year_0_start ==
    [kind |-> "datetime", md |-> 0 - 17023002, tick |-> 0, tzinfo |-> "utc"]

\* martian_sol_length: float = 24.6597, in ten-thousandths of an hour
mer_martian_sol_length == 246597

\* seconds_per_sol = martian_sol_length / 24 * 86400, in ticks
mer_seconds_per_sol == mer_martian_sol_length * (TicksPerDay \div (24 * 10000))

\* sols_per_martian_year = 686.973 * 24 / martian_sol_length, in units of
\* 1 / SolScale sol
mer_sols_per_martian_year ==
    MulDiv(686973 * 24 * 10, SolScale, mer_martian_sol_length)

\* sols_between_datetimes: (later_dt - early_dt).total_seconds() /
\* seconds_per_sol; a value that is no datetime, or a naive and an aware
\* datetime, give TypeError
mer_sols_between_datetimes(early_dt, later_dt) ==
    IF early_dt.kind # "datetime" \/ later_dt.kind # "datetime" THEN Raise("TypeError")
    ELSE IF ~ can_subtract(later_dt, early_dt) THEN Raise("TypeError")
    ELSE LET elapsed_seconds == total_seconds(later_dt, early_dt)
         IN  IF elapsed_seconds >= 0
             THEN MulDiv(elapsed_seconds, SolScale, mer_seconds_per_sol)
             ELSE 0 - MulDiv(0 - elapsed_seconds, SolScale, mer_seconds_per_sol)

\* sols_after_mars_year_0: sols_between_datetimes(mars_year_0_start, dt)
mer_sols_after_mars_year_0(d) ==
    mer_sols_between_datetimes(mer_mars_year_0_start, d)

\* datetime_to_earthdatetime: an EarthDateTime of the same wall clock, UTC
\* for a naive datetime; TypeError for a value that is no datetime
mer_datetime_to_earthdatetime(d) ==
    IF d.kind # "datetime" THEN Raise("TypeError")
    ELSE IF d.tzinfo = "None" THEN datetime_replace_tzinfo(d, "utc")
    ELSE d

\* EarthDateTime.to_fractional_mars_year: sols_after_mars_year_0(self) /
\* sols_per_martian_year, as the ratio num / den
EarthDateTime_to_fractional_mars_year(self) ==
    [num |-> mer_sols_after_mars_year_0(self), den |-> mer_sols_per_martian_year]

\* EarthDateTime.to_whole_mars_year: math.floor(self.to_fractional_mars_year())
EarthDateTime_to_whole_mars_year(self) ==
    LET fractional_mars_year == EarthDateTime_to_fractional_mars_year(self)
    IN  fractional_mars_year.num \div fractional_mars_year.den

\* EarthDateTime.to_sol: sols_after_mars_year_0(self) % sols_per_martian_year
EarthDateTime_to_sol(self) ==
    mer_sols_after_mars_year_0(self) % mer_sols_per_martian_year

----------------------------------------------------------------------------
(* inputs *)

\* the longest chain of calls followed from an initial value
MaxCalls == 2

\* years with fewer and with more sols than the average, and both table ends
SampleYears == {0 - 99, 0 - 98, 0 - 1, 0, 12, 13, 30, 32, 35, 36, 98, 99}

YearInputs == SampleYears \cup {0 - 100, 100}

Sols(n) == n * SolScale

SolInputs(year) ==
    IF year \in SampleYears
    THEN {0 - 1, 0, Sols(200), sols_per_martian_year, sols_per_martian_year + 1,
          sols_per_year(year) - 1, sols_per_year(year), sols_per_year(year) + 1}
    ELSE {0}

\* the MarsTimeDeltas a caller adds to or subtracts from the MarsTime m
DeltaInputs(m) ==
    IF m.kind # "MarsTime" THEN {} ELSE
    {MarsTimeDelta(0, 0), MarsTimeDelta(1, 0), MarsTimeDelta(0 - 1, 0),
     MarsTimeDelta(0 - 12, 0), MarsTimeDelta(0, 1), MarsTimeDelta(0, 0 - 1),
     MarsTimeDelta(0, Sols(200)), MarsTimeDelta(0, Sols(700)),
     MarsTimeDelta(0, 0 - Sols(700)),
     MarsTimeDelta(0, sols_per_year(m.year)),
     MarsTimeDelta(0, sols_per_martian_year)}

\* the values of any kind a caller passes as the year of a MarsTime
YearValues ==
    {PyInt(0), PyInt(36), PyInt(100), PyInt(0 - 100), PyFloat(Sols(2) - 1),
     PyStr(<<"1", "2">>), PyStr(<<"-", "5">>), PyStr(<<"f", "o", "o">>),
     PyStr(<<"1", "2", "0">>), PyStr(<<>>), PyList, None}

\* the values of any kind a caller passes as the sol of a MarsTime
SolValues ==
    {PyFloat(0), PyFloat(0 - 1), PyFloat(Sols(200)), PyFloat(Sols(669)), PyInt(200),
     PyInt(0 - 1), PyStr(<<"2", "0", "0">>), PyStr(<<"f", "o", "o">>),
     PyStr(<<"7", "0", "0">>), PyList, None}

\* the MarsTimes a caller subtracts from or compares with a MarsTime
MarsTimeInputs ==
    {MarsTime(0, 0), MarsTime(31, Sols(400)), MarsTime(36, sols_per_year(36))}

\* the year and sol arguments of the MarsTimeDeltas a caller makes
DeltaYearInputs == (0 - 2)..2

DeltaSolInputs ==
    {0, 1, 0 - 1, Sols(200), Sols(750), 0 - Sols(400),
     sols_per_martian_year, 0 - sols_per_martian_year}

\* the MarsTimes and MarsTimeDeltas a caller compares
CompareInputs ==
    MarsTimeInputs
    \cup {MarsTime(0, Sols(400)), MarsTime(31, 0), MarsTime(1, 0)}
    \cup {MarsTimeDelta(0, 0), MarsTimeDelta(1, 0), MarsTimeDelta(2, 0),
          MarsTimeDelta(0, sols_per_martian_year),
          MarsTimeDelta(1, sols_per_martian_year),
          MarsTimeDelta(0, Sols(400)), MarsTimeDelta(1, Sols(400))}

\* the MarsTimes a caller orders
OrderInputs == {v \in CompareInputs : v.kind = "MarsTime"}

\* the objects a caller assigns an attribute of, and the names it assigns
SetAttrObjects ==
    {MarsTime(0, 0), MarsTime(36, Sols(11)),
     MarsTimeDelta(0, 0), MarsTimeDelta(1, Sols(750))}

SetAttrNames == {"year", "years", "sol", "sols", "_year", "_sol"}

\* values that are no datetime, passed to datetime_to_mars_time
NonDatetimeValues ==
    {PyStr(<<"f", "o", "o">>), PyList, PyInt(5), None,
     MarsTimeDelta(0, 0), [kind |-> "MarsTime", year |-> 0, sol |-> 0]}

\* datetime(2021, 2, 18, 20, 55, 0): 7719 days and 32100 s after J2000
perseverance_landing ==
    [kind |-> "datetime", md |-> 7719371, tick |-> 380, tzinfo |-> "None"]

\* datetime(2014, 9, 22, 2, 24, 0): 5377 days and 51840 s after J2000
maven_orbit_insertion ==
    [kind |-> "datetime", md |-> 5377600, tick |-> 0, tzinfo |-> "None"]

\* datetime(2020, 1, 1, 0, 0, 0), naive: 7304.5 days after J2000
native_datetime ==
    [kind |-> "datetime", md |-> 7304500, tick |-> 0, tzinfo |-> "None"]

\* datetime(2020, 1, 1, 0, 0, 0, tzinfo=utc)
aware_datetime == datetime_replace_tzinfo(native_datetime, "utc")

\* the aware datetimes a caller converts
AwareDatetimeInputs ==
    UNION {LET s == mars_year_starting_datetimes[y]
           IN  {s, datetime_add(s, 0 - 1), datetime_add(s, 1),
                datetime_add(s, seconds_per_sol * 200),
                datetime_add(s, MulDiv(sols_per_martian_year, seconds_per_sol, SolScale)),
                datetime_add(s, MulDiv(sols_per_martian_year, seconds_per_sol, SolScale) - 1)}
           : y \in SampleYears \cup {100}}
    \cup {aware_datetime,
          datetime_add_days(mars_year_starting_datetimes[FirstTabulatedYear], 0 - 1000000),
          datetime_add_days(mars_year_starting_datetimes[LastTabulatedYear], 1000000)}

\* the datetimes a caller converts: the aware ones, and the naive ones of the
\* same wall clocks
DatetimeInputs ==
    AwareDatetimeInputs
    \cup {datetime_replace_tzinfo(d, "None") : d \in AwareDatetimeInputs}
    \cup {perseverance_landing, maven_orbit_insertion, native_datetime}

\* the instants a caller converts in pairs: around the end of year 12, which
\* is longer than the average year, and of year 0, which is shorter
PairedDatetimeInputs ==
    UNION {LET s == mars_year_starting_datetimes[y]
               next == mars_year_starting_datetimes[y + 1]
           IN  {datetime_add(s, seconds_per_sol * 200),
                datetime_add(s, MulDiv(sols_per_martian_year, seconds_per_sol, SolScale)),
                datetime_add(next, 0 - 1), next, datetime_add(next, 1)}
           : y \in {0, 12}}

\* the MarsTimes a caller converts or combines in pairs: starts and ends of
\* the years 0 (shorter than the average year) and 12 (longer), and sols inside
PairedMarsTimeInputs ==
    {MarsTime(0, 0), MarsTime(0, sols_per_year(0)), MarsTime(1, 0),
     MarsTime(12, Sols(200)), MarsTime(12, sols_per_year(12)), MarsTime(13, 0),
     MarsTime(31, Sols(400))}

\* the years around Mars year 0 that the instants of the mer package are
\* taken from (sols counted from year 0 in fixed point stay within 32 bits)
EarthDateTimeYears == (0 - 4)..3

\* the datetimes a caller converts with the mer package: starts of the
\* average years before and after Mars year 0, instants inside them, and the
\* naive datetimes of the same wall clocks
EarthDateTimeInputs ==
    LET aware == {datetime_add(mer_mars_year_0_start,
                               k * mer_sols_per_martian_year + offset)
                  : k \in EarthDateTimeYears,
                    offset \in {0, 1, Sols(200), mer_sols_per_martian_year - 1}}
    IN  aware \cup {datetime_replace_tzinfo(d, "None") : d \in aware}

\* values that are no MarsTime, passed to mars_time_to_datetime
NonMarsTimeValues ==
    {PyStr(<<"f", "o", "o">>), PyList, PyInt(5), None, MarsTimeDelta(0, 0),
     MarsTimeDelta(1, Sols(200)), perseverance_landing, maven_orbit_insertion}

----------------------------------------------------------------------------
(* The caller evaluates expressions over the package.  An expression       *)
(* starts with a call on inputs (the constructor, from_solar_longitude, or *)
(* datetime_to_mars_time of a datetime) and goes on with calls on the      *)
(* value at hand.  mt is the MarsTime at hand, mtd the MarsTimeDelta at     *)
(* hand and dt the datetime at hand (None when there is none, in           *)
(* particular after a call that raised); src is the MarsTime that dt was   *)
(* converted from; call records the last call, its operands and what it    *)
(* returned or raised; ncalls counts the calls made on values at hand.     *)

Call(op, self, arg, ret) == [op |-> op, self |-> self, arg |-> arg, ret |-> ret]

\* the value at hand after a call: what it returned, nothing if it raised
AtHand(ret) == IF Raised(ret) THEN None ELSE ret

Init ==
    /\ mt = None
    /\ mtd = None
    /\ dt = None
    /\ src = None
    /\ call = Call("none", None, None, None)
    /\ ncalls = 0

\* mt = MarsTime(year, sol)
Construct(year, sol) ==
    /\ call.op = "none"
    /\ LET ret == MarsTime(year, sol)
       IN  /\ mt' = AtHand(ret)
           /\ call' = Call("MarsTime", None, <<year, sol>>, ret)
    /\ UNCHANGED <<mtd, dt, src, ncalls>>

\* mt = MarsTime(year, sol) for arguments of any kind
ConstructOf(year, sol) ==
    /\ call.op = "none"
    /\ LET ret == MarsTime__init__(year, sol)
       IN  /\ mt' = AtHand(ret)
           /\ call' = Call("MarsTime__init__", None, <<year, sol>>, ret)
    /\ UNCHANGED <<mtd, dt, src, ncalls>>

\* mtd = MarsTimeDelta(year, sol), then mtd.year, mtd.sol, mtd.years, mtd.sols
DeltaTotals(year, sol) ==
    /\ call.op = "none"
    /\ LET delta == MarsTimeDelta(year, sol)
       IN  /\ mtd' = delta
           /\ call' = Call("MarsTimeDelta_totals", delta, <<year, sol>>,
                           [kind  |-> "totals",
                            year  |-> delta.year,
                            sol   |-> delta.sol,
                            years |-> MarsTimeDelta_years(delta),
                            sols  |-> MarsTimeDelta_sols(delta)])
    /\ UNCHANGED <<mt, dt, src, ncalls>>

\* a == b for two values of the caller's
Equals(a, b) ==
    /\ call.op = "none"
    /\ call' = Call("__eq__", a, b, eq(a, b))
    /\ UNCHANGED <<mt, mtd, dt, src, ncalls>>

\* a < b for two MarsTimes of the caller's
LessThan(a, b) ==
    /\ call.op = "none"
    /\ call' = Call("__lt__", a, b, MarsTime__lt__(a, b))
    /\ UNCHANGED <<mt, mtd, dt, src, ncalls>>

\* obj.name = value for an object of the caller's, which stays at hand
SetAttr(obj, name, value) ==
    /\ call.op = "none"
    /\ LET done == setattr(obj, name, value)
       IN  /\ mt' = IF obj.kind = "MarsTime" THEN done.obj ELSE mt
           /\ mtd' = IF obj.kind = "MarsTimeDelta" THEN done.obj ELSE mtd
           /\ call' = Call("__setattr__", obj, <<name, value>>, done.ret)
    /\ UNCHANGED <<dt, src, ncalls>>

\* sols_per_mars_year()
SolsPerMarsYear ==
    /\ call.op = "none"
    /\ call' = Call("sols_per_mars_year", None, None,
                    [kind |-> "dict", items |-> sols_per_mars_year])
    /\ UNCHANGED <<mt, mtd, dt, src, ncalls>>

\* solar_longitude_to_sol(solar_longitude)
SolarLongitudeToSol(solar_longitude) ==
    /\ call.op = "none"
    /\ call' = Call("solar_longitude_to_sol", None, solar_longitude,
                    solar_longitude_to_sol_double(solar_longitude))
    /\ UNCHANGED <<mt, mtd, dt, src, ncalls>>

\* mt = MarsTime.from_solar_longitude(year, solar_longitude)
FromSolarLongitude(year, solar_longitude) ==
    /\ call.op = "none"
    /\ LET ret == MarsTime_from_solar_longitude(year, solar_longitude)
       IN  /\ mt' = AtHand(ret)
           /\ call' = Call("from_solar_longitude", None, <<year, solar_longitude>>, ret)
    /\ UNCHANGED <<mtd, dt, src, ncalls>>

\* mt = datetime_to_mars_time(d) for a value d of the caller's
DatetimeToMarsTime(d) ==
    /\ call.op = "none"
    /\ LET ret == datetime_to_mars_time(d)
       IN  /\ mt' = AtHand(ret)
           /\ call' = Call("datetime_to_mars_time", None, d, ret)
    /\ UNCHANGED <<mtd, dt, src, ncalls>>

\* dt = mars_time_to_datetime(v) for a value v of the caller's that is no MarsTime
MarsTimeToDatetimeOf(v) ==
    /\ call.op = "none"
    /\ LET ret == mars_time_to_datetime(v)
       IN  /\ dt' = AtHand(ret)
           /\ call' = Call("mars_time_to_datetime", None, v, ret)
    /\ UNCHANGED <<mt, mtd, src, ncalls>>

\* datetime_to_mars_time(t1) and datetime_to_mars_time(t2) for two instants
\* of the caller's
DatetimeToMarsTimePair(t1, t2) ==
    /\ call.op = "none"
    /\ call' = Call("datetime_to_mars_time_pair", None, <<t1, t2>>,
                    [kind   |-> "pair",
                     first  |-> datetime_to_mars_time(t1),
                     second |-> datetime_to_mars_time(t2)])
    /\ UNCHANGED <<mt, mtd, dt, src, ncalls>>

\* mars_time_to_datetime(a) and mars_time_to_datetime(b) for two MarsTimes of
\* the caller's
MarsTimeToDatetimePair(a, b) ==
    /\ call.op = "none"
    /\ call' = Call("mars_time_to_datetime_pair", None, <<a, b>>,
                    [kind   |-> "pair",
                     first  |-> mars_time_to_datetime(a),
                     second |-> mars_time_to_datetime(b)])
    /\ UNCHANGED <<mt, mtd, dt, src, ncalls>>

\* mt = a + (b - a) for two MarsTimes of the caller's
AddDifference(a, b) ==
    /\ call.op = "none"
    /\ LET difference == MarsTime__sub__(b, a)
           ret == MarsTime__add__(a, difference)
       IN  /\ mt' = AtHand(ret)
           /\ mtd' = difference
           /\ call' = Call("add_difference", a, b, ret)
    /\ UNCHANGED <<dt, src, ncalls>>

\* import mer.retimers; edt = datetime_to_earthdatetime(d), then
\* edt.to_whole_mars_year(), edt.to_sol() and sols_after_mars_year_0(edt)
EarthDateTimeConversions(d) ==
    /\ call.op = "none"
    /\ LET edt == mer_datetime_to_earthdatetime(d)
           ret == IF Raised(mer_retimers_import) THEN mer_retimers_import
                  ELSE IF Raised(edt) THEN edt
                  ELSE [kind |-> "EarthDateTime conversions",
                        whole_mars_year |-> EarthDateTime_to_whole_mars_year(edt),
                        sol |-> EarthDateTime_to_sol(edt),
                        sols_after_mars_year_0 |-> mer_sols_after_mars_year_0(edt)]
       IN  call' = Call("EarthDateTime", None, d, ret)
    /\ UNCHANGED <<mt, mtd, dt, src, ncalls>>

Add ==
    /\ mt # None
    /\ ncalls < MaxCalls
    /\ \E other \in DeltaInputs(mt) :
          LET ret == MarsTime__add__(mt, other)
          IN  /\ mt' = AtHand(ret)
              /\ call' = Call("__add__", mt, other, ret)
    /\ ncalls' = ncalls + 1
    /\ UNCHANGED <<mtd, dt, src>>

\* mt = mt - other, for a MarsTimeDelta other of the caller's
Sub ==
    /\ mt # None
    /\ ncalls < MaxCalls
    /\ \E other \in DeltaInputs(mt) :
          LET ret == MarsTime__sub__(mt, other)
          IN  /\ mt' = AtHand(ret)
              /\ call' = Call("__sub__", mt, other, ret)
    /\ ncalls' = ncalls + 1
    /\ UNCHANGED <<mtd, dt, src>>

\* mtd = mt - other, for a MarsTime other of the caller's
SubMarsTime ==
    /\ mt # None
    /\ ncalls < MaxCalls
    /\ \E other \in MarsTimeInputs :
          LET ret == MarsTime__sub__(mt, other)
          IN  /\ mtd' = AtHand(ret)
              /\ call' = Call("__sub__", mt, other, ret)
    /\ ncalls' = ncalls + 1
    /\ UNCHANGED <<mt, dt, src>>

\* dt = mars_time_to_datetime(mt)
MarsTimeToDatetime ==
    /\ mt # None
    /\ ncalls < MaxCalls
    /\ LET ret == mars_time_to_datetime(mt)
       IN  /\ dt' = AtHand(ret)
           /\ src' = mt
           /\ call' = Call("mars_time_to_datetime", None, mt, ret)
    /\ ncalls' = ncalls + 1
    /\ UNCHANGED <<mt, mtd>>

\* mt = datetime_to_mars_time(dt), for the dt that mars_time_to_datetime(src) returned
ConvertBack ==
    /\ dt # None
    /\ ncalls < MaxCalls
    /\ LET ret == datetime_to_mars_time(dt)
       IN  /\ mt' = AtHand(ret)
           /\ call' = Call("datetime_to_mars_time", src, dt, ret)
    /\ ncalls' = ncalls + 1
    /\ UNCHANGED <<mtd, dt, src>>

Next ==
    \/ \E year \in YearInputs : \E sol \in SolInputs(year) : Construct(year, sol)
    \/ \E year \in YearValues : \E sol \in SolValues : ConstructOf(year, sol)
    \/ \E year \in DeltaYearInputs : \E sol \in DeltaSolInputs : DeltaTotals(year, sol)
    \/ \E a \in CompareInputs : \E b \in CompareInputs : Equals(a, b)
    \/ \E a \in OrderInputs : \E b \in OrderInputs : LessThan(a, b)
    \/ \E obj \in SetAttrObjects : \E name \in SetAttrNames : \E value \in {0, 5} :
          SetAttr(obj, name, value)
    \/ SolsPerMarsYear
    \/ \E ls \in DOMAIN solar_longitude_to_sol_doubles : SolarLongitudeToSol(ls)
    \/ \E year \in YearInputs : \E ls \in DOMAIN solar_longitude_to_sol_values :
          FromSolarLongitude(year, ls)
    \/ \E d \in DatetimeInputs \cup NonDatetimeValues : DatetimeToMarsTime(d)
    \/ \E v \in NonMarsTimeValues : MarsTimeToDatetimeOf(v)
    \/ \E a \in PairedMarsTimeInputs : \E b \in PairedMarsTimeInputs :
          MarsTimeToDatetimePair(a, b)
    \/ \E a \in PairedMarsTimeInputs : \E b \in PairedMarsTimeInputs :
          AddDifference(a, b)
    \/ \E t1 \in PairedDatetimeInputs : \E t2 \in PairedDatetimeInputs :
          DatetimeToMarsTimePair(t1, t2)
    \/ \E d \in EarthDateTimeInputs \cup NonDatetimeValues : EarthDateTimeConversions(d)
    \/ Add
    \/ Sub
    \/ SubMarsTime
    \/ MarsTimeToDatetime
    \/ ConvertBack

Spec == Init /\ [][Next]_vars

TypeOK ==
    /\ mt.kind \in {"None", "MarsTime"}
    /\ mtd.kind \in {"None", "MarsTimeDelta"}
    /\ dt.kind \in {"None", "datetime"}
    /\ ncalls \in 0..MaxCalls

----------------------------------------------------------------------------
(* properties *)

\* the years a MarsTime can carry
ValidYears == (0 - 99)..99

IsMarsTime(v, year, sol) == v.kind = "MarsTime" /\ v.year = year /\ v.sol = sol

\* the last call converted back the datetime that mars_time_to_datetime(call.self) returned
IsRoundTrip == call.op = "datetime_to_mars_time" /\ call.self.kind = "MarsTime"

\* C1: round trip: for every year Y and every sol in [0, sols_per_year(Y)),
\* datetime_to_mars_time(mars_time_to_datetime(MarsTime(Y, sol))) is
\* MarsTime(Y, sol): same year, same sol (the model's arithmetic is exact).
C1_RoundTrip ==
    (IsRoundTrip /\ call.self.sol < sols_per_year(call.self.year))
        => IsMarsTime(call.ret, call.self.year, call.self.sol)

\* the last call added a sol offset to the MarsTime call.self
IsAddSols == call.op = "__add__" /\ call.arg.kind = "MarsTimeDelta" /\ call.arg.year = 0

\* C2: year rollover at the per-year boundary: for every year Y with Y+1
\* constructible, MarsTime(Y, 0) + MarsTimeDelta(sol=sols_per_year(Y)) is
\* MarsTime(Y+1, 0).
C2_RolloverAtYearBoundary ==
    (/\ IsAddSols
     /\ call.self.sol = 0
     /\ call.arg.sol = sols_per_year(call.self.year)
     /\ call.self.year + 1 \in ValidYears)
        => IsMarsTime(call.ret, call.self.year + 1, 0)

\* the normalisation C3 describes: while the sol is >= the sol count of the
\* current year, subtract that count and increment the year; while it is
\* negative, decrement the year and add that year's count; a year outside
\* ValidYears when the walk leaves the table
RECURSIVE YearByYear(_, _)
YearByYear(year, sol) ==
    IF year \notin ValidYears THEN [year |-> year, sol |-> 0]
    ELSE IF sol >= sols_per_year(year)
         THEN YearByYear(year + 1, sol - sols_per_year(year))
    ELSE IF sol < 0
         THEN IF year - 1 \in ValidYears
              THEN YearByYear(year - 1, sol + sols_per_year(year - 1))
              ELSE [year |-> year - 1, sol |-> 0]
    ELSE [year |-> year, sol |-> sol]

\* C3: MarsTime + MarsTimeDelta normalises year by year: for every valid
\* MarsTime (Y, s) and every sol offset d whose target stays inside the
\* table, the sum is the MarsTime that YearByYear(Y, s + d) gives, so its sol
\* lies in [0, sols_per_year(result year)).
C3_AddNormalizesYearByYear ==
    (/\ IsAddSols
     /\ YearByYear(call.self.year, call.self.sol + call.arg.sol).year \in ValidYears)
        => LET target == YearByYear(call.self.year, call.self.sol + call.arg.sol)
           IN  /\ IsMarsTime(call.ret, target.year, target.sol)
               /\ call.ret.sol < sols_per_year(call.ret.year)

\* C4: adding the zero delta is the identity: for every valid MarsTime mt,
\* mt + MarsTimeDelta(0, 0) is a MarsTime equal to mt.
C4_AddZeroIsIdentity ==
    (call.op = "__add__" /\ call.arg = MarsTimeDelta(0, 0))
        => IsMarsTime(call.ret, call.self.year, call.self.sol)

\* the last call was MarsTime(year, sol) for a tabulated year
IsConstruct == call.op = "MarsTime"

ContainingYears(d) ==
    {y \in ValidYears :
        /\ datetime_ge(d, mars_year_starting_datetimes[y])
        /\ ~datetime_ge(d, mars_year_starting_datetimes[y + 1])}

\* C6: datetime_to_mars_time selects the containing year: for every instant
\* t with yearStart(Y) <= t < yearStart(Y+1) the result has year Y and
\* sol = (t - yearStart(Y)) / seconds_per_sol.
C6_SelectsContainingYear ==
    (call.op = "datetime_to_mars_time" /\ call.arg.kind = "datetime")
        => \A y \in ContainingYears(call.arg) :
              IsMarsTime(call.ret, y,
                         MulDiv(total_seconds(call.arg, mars_year_starting_datetimes[y]),
                                SolScale, seconds_per_sol))

\* C7: mars_time_to_datetime(mt) is yearStart(mt.year) + mt.sol *
\* seconds_per_sol for every valid MarsTime; for sol 0 it is the epoch-table
\* entry of the year.
C7_MarsTimeToDatetime ==
    (call.op = "mars_time_to_datetime" /\ call.arg.kind = "MarsTime")
        => /\ call.ret.kind = "datetime"
           /\ call.ret.tick \in 0..(TicksPerMilliDay - 1)
           /\ total_seconds(call.ret, mars_year_starting_datetimes[call.arg.year])
                 = MulDiv(call.arg.sol, seconds_per_sol, SolScale)
           /\ call.arg.sol = 0 =>
                 /\ call.ret.md = mars_year_start_days_since_j2000[call.arg.year]
                 /\ call.ret.tick = 0

\* mars_time_to_datetime was called on a MarsTime that is not a year start
C7_Witness ==
    /\ call.op = "mars_time_to_datetime"
    /\ call.arg.kind = "MarsTime"
    /\ call.arg.sol > Sols(1)
    /\ call.ret.kind = "datetime"

\* a sol value rounded to two decimals, in hundredths of a sol
RoundedToHundredths(sol) == (MulDiv(sol, 1000, SolScale) + 5) \div 10

\* C8: the instant 2021-02-18T20:55:00 converts to year 36 with sol 11.11
\* (two decimals, inside 11.04..11.11), and 2014-09-22T02:24:00 converts to
\* year 32 with sol 406.36.
C8_KnownInstants ==
    /\ (call.op = "datetime_to_mars_time" /\ call.arg = perseverance_landing)
          => /\ call.ret.kind = "MarsTime"
             /\ call.ret.year = 36
             /\ RoundedToHundredths(call.ret.sol) = 1111
             /\ RoundedToHundredths(call.ret.sol) \in 1104..1111
    /\ (call.op = "datetime_to_mars_time" /\ call.arg = maven_orbit_insertion)
          => /\ call.ret.kind = "MarsTime"
             /\ call.ret.year = 32
             /\ RoundedToHundredths(call.ret.sol) = 40636

\* the Perseverance landing instant was converted
C8_Witness ==
    /\ call.op = "datetime_to_mars_time"
    /\ call.arg = perseverance_landing
    /\ call.ret.kind = "MarsTime"

\* C9: MarsTime.from_solar_longitude(year, ls) returns a MarsTime for every
\* year in -99..99 and every ls in [0, 360): it never raises, and the result
\* carries the requested year with a sol inside that year's valid range.
C9_FromSolarLongitudeReturns ==
    (call.op = "from_solar_longitude" /\ call.arg[1] \in ValidYears)
        => /\ call.ret.kind = "MarsTime"
           /\ call.ret.year = call.arg[1]
           /\ 0 <= call.ret.sol
           /\ call.ret.sol <= sols_per_year(call.ret.year)

\* d is earlier than the start of year -99 or at/after the start of year 100
OutsideTable(d) ==
    \/ ~datetime_ge(d, mars_year_starting_datetimes[FirstTabulatedYear])
    \/ datetime_ge(d, mars_year_starting_datetimes[LastTabulatedYear])

\* C10: no silent clamping outside the table: for an instant earlier than
\* the start of year -99 or at/after the start of year 100,
\* datetime_to_mars_time raises a type, value or lookup error and never
\* returns a MarsTime.
C10_NoClampingOutsideTable ==
    (call.op = "datetime_to_mars_time" /\ call.arg.kind = "datetime"
     /\ OutsideTable(call.arg))
        => /\ Raised(call.ret)
           /\ call.ret.exc \in {"TypeError", "ValueError", "IndexError", "KeyError"}
           /\ mt = None

\* an instant at or after the start of year 100 was converted
C10_Witness ==
    /\ call.op = "datetime_to_mars_time"
    /\ call.arg.kind = "datetime"
    /\ datetime_ge(call.arg, mars_year_starting_datetimes[LastTabulatedYear])
    /\ Raised(call.ret)

\* a value of a kind that int() and float() reject
NotConvertible(v) == v.kind \in {"list", "None"}

\* a str that holds a character no number is written with
NonNumericString(v) ==
    /\ v.kind = "str"
    /\ \E i \in 1..Len(v.chars) : v.chars[i] \notin (DOMAIN DigitValue \cup {"+", "-"})

C12_WrongKindRaisesTypeError ==
    /\ (call.op = "mars_time_to_datetime" /\ call.arg.kind # "MarsTime")
          => call.ret = Raise("TypeError")
    /\ (call.op = "datetime_to_mars_time" /\ call.arg.kind # "datetime")
          => call.ret = Raise("TypeError")

\* C13: a naive datetime is treated as UTC: for every instant,
\* datetime_to_mars_time of the naive value returns (or raises) what
\* datetime_to_mars_time of the same wall clock tagged UTC does.
C13_NaiveIsUTC ==
    (call.op = "datetime_to_mars_time" /\ call.arg.kind = "datetime"
     /\ call.arg.tzinfo = "None")
        => call.ret = datetime_to_mars_time(datetime_replace_tzinfo(call.arg, "utc"))

\* the naive datetime(2020, 1, 1) was converted to a MarsTime
C13_Witness ==
    /\ call.op = "datetime_to_mars_time"
    /\ call.arg = native_datetime
    /\ call.ret.kind = "MarsTime"

\* C14: MarsTime - MarsTime is the componentwise difference with no
\* renormalisation: for all valid a and b, a - b is
\* MarsTimeDelta(year = a.year - b.year, sol = a.sol - b.sol), whose sol
\* component may be negative.
C14_SubIsComponentwise ==
    (call.op = "__sub__" /\ call.arg.kind = "MarsTime")
        => /\ call.ret.kind = "MarsTimeDelta"
           /\ call.ret.year = call.self.year - call.arg.year
           /\ call.ret.sol = call.self.sol - call.arg.sol
           /\ mtd = call.ret

\* a MarsTime was subtracted from a MarsTime with a smaller sol
C14_Witness ==
    /\ call.op = "__sub__"
    /\ call.arg.kind = "MarsTime"
    /\ call.self.kind = "MarsTime"
    /\ call.ret.kind = "MarsTimeDelta"
    /\ call.ret.sol < 0

\* a fractional number of years times sols_per_martian_year, in SolScale units
YearsInSols(years) == years.whole * sols_per_martian_year + years.num

\* C15: MarsTimeDelta totals use the average sols-per-year constant A:
\* years = year + sol / A and sols = sol + year * A, hence sols = years * A
\* for every delta; MarsTimeDelta(year=1, sol=A) has year 1, sol A, years 2
\* and sols 2 * A.
C15_DeltaTotals ==
    (call.op = "MarsTimeDelta_totals")
        => LET year == call.arg[1]
               sol  == call.arg[2]
           IN  /\ call.ret.year = year
               /\ call.ret.sol = sol
               /\ YearsInSols(call.ret.years) = year * sols_per_martian_year + sol
               /\ call.ret.sols = sol + year * sols_per_martian_year
               /\ call.ret.sols = YearsInSols(call.ret.years)
               /\ (year = 1 /\ sol = sols_per_martian_year)
                     => /\ YearsInSols(call.ret.years) = 2 * sols_per_martian_year
                        /\ call.ret.sols = 2 * sols_per_martian_year

\* the totals of MarsTimeDelta(year=1, sol=sols_per_martian_year) were read
C15_Witness ==
    /\ call.op = "MarsTimeDelta_totals"
    /\ call.arg = <<1, sols_per_martian_year>>
    /\ call.ret.sols = 2 * sols_per_martian_year

\* C16: equality is exact and componentwise: two MarsTimes are equal iff
\* their years are equal and their sols are equal; two MarsTimeDeltas are
\* equal iff their year and sol components are equal, so deltas with the
\* same total and another year/sol split are not equal; a MarsTime never
\* equals a MarsTimeDelta.
C16_EqualityIsComponentwise ==
    (call.op = "__eq__")
        => LET a == call.self
               b == call.arg
           IN  /\ call.ret.kind = "bool"
               /\ (a.kind = b.kind)
                     => (call.ret.v <=> (a.year = b.year /\ a.sol = b.sol))
               /\ (a.kind # b.kind) => ~call.ret.v
               /\ (/\ a.kind = "MarsTimeDelta"
                   /\ b.kind = "MarsTimeDelta"
                   /\ a.year # b.year
                   /\ a.sol + a.year * sols_per_martian_year
                         = b.sol + b.year * sols_per_martian_year)
                     => ~call.ret.v

\* two MarsTimeDeltas of one total and different splits were compared
C16_Witness ==
    /\ call.op = "__eq__"
    /\ call.self = MarsTimeDelta(1, sols_per_martian_year)
    /\ call.arg = MarsTimeDelta(2, 0)
    /\ call.ret = PyBool(FALSE)

\* C17: MarsTime values are totally ordered: a < b holds iff
\* a.year < b.year, or a.year = b.year and a.sol < b.sol, and the comparison
\* is available (returns a bool) for every pair of valid MarsTimes.
C17_TotalOrder ==
    (call.op = "__lt__")
        => /\ call.ret.kind = "bool"
           /\ call.ret.v <=> (\/ call.self.year < call.arg.year
                              \/ /\ call.self.year = call.arg.year
                                 /\ call.self.sol < call.arg.sol)

\* the attribute names C18 lists for the class of obj
PublicNames(obj) ==
    IF obj.kind = "MarsTime" THEN {"year", "sol"} ELSE {"year", "years", "sol", "sols"}

C19_LargestSolOfYear0 ==
    (IsConstruct /\ call.arg[1] = 0)
        => /\ call.arg[2] = sols_per_martian_year
                 => IsMarsTime(call.ret, 0, sols_per_martian_year)
           /\ call.arg[2] > sols_per_martian_year
                 => call.ret = Raise("ValueError")

\* C20: the epoch table covers every integer year from -99 to 100 with no
\* gap and is strictly increasing in value; for every year Y in -99..99 the
\* per-year sol count (yearStart(Y+1) - yearStart(Y)) / seconds_per_sol lies
\* between 668 and 669.
C20_EpochTable ==
    (call.op = "sols_per_mars_year")
        => /\ DOMAIN mars_year_start_days_since_j2000 = (0 - 99)..100
           /\ \A y \in (0 - 99)..99 :
                 /\ mars_year_start_days_since_j2000[y]
                       < mars_year_start_days_since_j2000[y + 1]
                 /\ ~datetime_ge(mars_year_starting_datetimes[y],
                                 mars_year_starting_datetimes[y + 1])
           /\ DOMAIN call.ret.items = (0 - 99)..99
           /\ \A y \in DOMAIN call.ret.items :
                 /\ Sols(668) <= call.ret.items[y]
                 /\ call.ret.items[y] <= Sols(669)

\* sols_per_mars_year() returned the sol counts of the years -99..99
C20_Witness ==
    /\ call.op = "sols_per_mars_year"
    /\ call.ret.kind = "dict"
    /\ (0 - 99) \in DOMAIN call.ret.items
    /\ 99 \in DOMAIN call.ret.items

\* C21: longitude cyclicity: solar_longitude_to_sol(x) equals
\* solar_longitude_to_sol(x + 360) for every numeric x.
C21_LongitudeCyclicity ==
    (/\ call.op = "solar_longitude_to_sol"
     /\ call.arg + 3600 \in DOMAIN solar_longitude_to_sol_doubles)
        => call.ret = solar_longitude_to_sol_double(call.arg + 3600)

\* the last call added (sign 1) or subtracted (sign -1) a MarsTimeDelta
IsDeltaCall(sign) ==
    /\ call.op = (IF sign = 1 THEN "__add__" ELSE "__sub__")
    /\ call.arg.kind = "MarsTimeDelta"

\* C22: whole-year deltas move only the year: for MarsTime(Y, 0) and an
\* integer k, MarsTime(Y, 0) + MarsTimeDelta(year=k) is MarsTime(Y+k, 0)
\* when Y+k is in -99..99 and MarsTime(Y, 0) - MarsTimeDelta(year=k) is
\* MarsTime(Y-k, 0) when Y-k is in -99..99, negative years included.
C22_WholeYearDeltas ==
    \A sign \in {1, 0 - 1} :
        (/\ IsDeltaCall(sign)
         /\ call.self.sol = 0
         /\ call.arg.sol = 0
         /\ call.self.year + sign * call.arg.year \in ValidYears)
            => /\ IsMarsTime(call.ret, call.self.year + sign * call.arg.year, 0)
               /\ mt = call.ret

\* MarsTimeDelta(year=-12) was added to the start of a year, giving the
\* start of a negative year
C22_Witness ==
    /\ IsDeltaCall(1)
    /\ call.arg = MarsTimeDelta(0 - 12, 0)
    /\ call.self.sol = 0
    /\ call.ret.kind = "MarsTime"
    /\ call.ret.year < 0
    /\ call.self.year >= 0

\* C23: subtracting a sol offset across a year start borrows one average
\* year: for a year Y with Y-1 in -99..99 and 0 < d < sols_per_martian_year,
\* MarsTime(Y, 0) - MarsTimeDelta(sol=d) has year Y-1 and
\* sol = sols_per_martian_year - d.
C23_SubBorrowsAverageYear ==
    (/\ IsDeltaCall(0 - 1)
     /\ call.arg.year = 0
     /\ call.self.sol = 0
     /\ 0 < call.arg.sol
     /\ call.arg.sol < sols_per_martian_year
     /\ call.self.year - 1 \in ValidYears)
        => IsMarsTime(call.ret, call.self.year - 1,
                      sols_per_martian_year - call.arg.sol)

\* m carries a year of -99..99 and a sol of [0, sols_per_year(year)]
ValidMarsTime(m) ==
    /\ m.year \in ValidYears
    /\ 0 <= m.sol
    /\ m.sol <= sols_per_year(m.year)

\* the operations whose argument is one value (not a tuple of arguments)
ValueArgumentCalls ==
    {"__add__", "__sub__", "__eq__", "__lt__", "add_difference",
     "mars_time_to_datetime", "datetime_to_mars_time"}

\* the values of the state: the ones at hand and the operands and the result
\* of the last call
ValuesInState ==
    {mt, src, call.self, call.ret}
    \cup (IF call.op \in ValueArgumentCalls THEN {call.arg} ELSE {})

NotLater(a, b) == a.year < b.year \/ (a.year = b.year /\ a.sol <= b.sol)

\* C26: datetime_to_mars_time is monotone over the table coverage: for
\* instants t1 <= t2 on which it returns, the result for t1 is not later than
\* the result for t2 in (year, sol) lexicographic order; in particular an
\* instant just before a year start never maps to a later Mars date than the
\* year start itself.
C26_ConversionIsMonotone ==
    (/\ call.op = "datetime_to_mars_time_pair"
     /\ datetime_ge(call.arg[2], call.arg[1])
     /\ call.ret.first.kind = "MarsTime"
     /\ call.ret.second.kind = "MarsTime")
        => NotLater(call.ret.first, call.ret.second)

\* C27: mars_time_to_datetime is injective on valid MarsTime values: two
\* MarsTimes that are not equal (different year or different sol) never map
\* to the same instant.
C27_ConversionIsInjective ==
    (/\ call.op = "mars_time_to_datetime_pair"
     /\ (call.arg[1].year # call.arg[2].year \/ call.arg[1].sol # call.arg[2].sol))
        => call.ret.first # call.ret.second

\* C28: difference and addition are inverse: for all valid MarsTimes a and
\* b, a + (b - a) returns a MarsTime equal to b.
C28_AddDifferenceIsInverse ==
    (call.op = "add_difference")
        => IsMarsTime(call.ret, call.arg.year, call.arg.sol)

\* C29: addition is total inside the table: for a valid MarsTime and a
\* MarsTimeDelta such that the instant the delta's sols after the MarsTime lies
\* between the start of year -99 and the start of year 100, adding the delta
\* (or subtracting the negated delta) returns a MarsTime, whose sol does not
\* exceed the sol count of its year.
TargetInstant(m, sols) ==
    datetime_add(mars_year_starting_datetimes[m.year], m.sol + sols)

InsideTable(t) ==
    /\ datetime_ge(t, mars_year_starting_datetimes[FirstTabulatedYear])
    /\ ~ datetime_ge(t, mars_year_starting_datetimes[LastTabulatedYear])

C29_AdditionIsTotalInsideTable ==
    \A sign \in {1, 0 - 1} :
        (/\ IsDeltaCall(sign)
         /\ call.arg.year \in (0 - 1)..1
         /\ InsideTable(TargetInstant(call.self, sign * MarsTimeDelta_sols(call.arg))))
            => /\ call.ret.kind = "MarsTime"
               /\ call.ret.sol <= sols_per_year(call.ret.year)

====
